---- MODULE Spec2Model ----
(***************************************************************************)
(* A model of ionic-traces (src/ionic/__main__.py): the timezone registry  *)
(* (table mbd_user), the registration handshake (?time, POST /), the       *)
(* deregistration command, the conversion of <...> time tokens and the     *)
(* reaction that retracts a reply.                                         *)
(*                                                                         *)
(* Time is counted in minutes.  Text is a sequence of one-character        *)
(* strings.  Every database transaction of the source (one                 *)
(* "async with session.begin()" block) is one atomic step.                 *)
(***************************************************************************)
EXTENDS Integers, Sequences, FiniteSets, TLC

VARIABLES
    registry,        \* table mbd_user: user id -> [tz, update_id, update_dt]
    now,             \* dt.datetime.now(tz=utc), in minutes
    default_dt,      \* the value of User.update_dt's column default: the time
                     \* at which the module was imported (line 89)
    reg_channel_id,  \* IonicTraces.reg_channel_id ("None" when not configured)
    ev,              \* the last event handled, with what the bot sent for it
    hist,            \* history: per user, when the pending link was issued,
                     \* the tokens issued before it, and whether a POST /
                     \* with a token issued to the user was answered
                     \* "Received" for the user's record since it was created
    spent,           \* history: the tokens answered "Received" since the last ?time
    proc             \* main(): the two top-level tasks, and asyncio.run itself

vars == <<registry, now, default_dt, reg_channel_id, ev, hist, spent, proc>>

-----------------------------------------------------------------------------
(* Bounds of the model *)

\* the instants at which the clock is looked at, in minutes after the module
\* was imported: two soon after it, and two that are 30 minutes after those
Times == {1, 2, 31, 32}

\* the most candidates a message of the model holds
MaxCandidates == 2

\* the most characters of a text given to the extractor alone
MaxText == 5

-----------------------------------------------------------------------------
(* The values of the program *)

None == "None"

\* REGISTRATION_TIMEOUT = dt.timedelta(minutes=30)
REGISTRATION_TIMEOUT == 30

MESSAGE_DELETE_REACTION == "x"

\* chat users, and the bot's own user (self.client.user)
Users == {"u1", "u2"}
Bot == "bot"

\* self.server_id, another guild, and a message outside any guild
ServerId == "served"
Guilds == {ServerId, "other"}

RegChannel == "registration"
Channels == {RegChannel, "general"}

\* random.randrange(1000000, 9999999, 1): the least and the greatest value
Tokens == {1000000, 9999998}

\* timezone strings a POST / may carry; "Mars/Phobos" names no timezone
Timezones == {"", "UTC", "America/New_York", "Mars/Phobos"}

\* cfg.app_url
AppUrl == "https://ionic.example/"

TimeCmd == <<"?", "t", "i", "m", "e">>
DeregCmd == TimeCmd \o <<"-", "d", "e", "r", "e", "g", "i", "s", "t", "e", "r">>

-----------------------------------------------------------------------------
(* Text: the two regular expressions and the Time-Token Extractor *)

Digit == {"0", "1", "2", "3", "4", "5", "6", "7", "8", "9"}

Letter ==
    {"a", "b", "c", "d", "e", "f", "g", "h", "i", "j", "k", "l", "m",
     "n", "o", "p", "q", "r", "s", "t", "u", "v", "w", "x", "y", "z",
     "A", "B", "C", "D", "E", "F", "G", "H", "I", "J", "K", "L", "M",
     "N", "O", "P", "Q", "R", "S", "T", "U", "V", "W", "X", "Y", "Z"}

\* the class [a-zA-Z0-9_.]
NameChar == Letter \cup Digit \cup {"_", "."}

\* the character at position i of s, "" outside s
At(s, i) == IF i >= 1 /\ i <= Len(s) THEN s[i] ELSE ""

\* [0-9]{n} matches at position i
DigitsAt(s, i, n) == \A j \in i..(i + n - 1) : At(s, j) \in Digit

\* the length of the longest run of NameChar starting at position i
RECURSIVE NameRun(_, _)
NameRun(s, i) == IF At(s, i) \in NameChar THEN 1 + NameRun(s, i + 1) ELSE 0

\* rgx_d_elems = "<(@!|#)[0-9]{18}>|<a{0,1}:[a-zA-Z0-9_.]{2,32}:[0-9]{18}>":
\* the length of its match starting at position i, 0 when there is none
rgx_d_elems_match(s, i) ==
    LET p == IF At(s, i + 1) = "@" /\ At(s, i + 2) = "!" THEN 3
             ELSE IF At(s, i + 1) = "#" THEN 2 ELSE 0
        q == IF At(s, i + 1) = "a" THEN i + 3 ELSE i + 2
        n == NameRun(s, q)
    IN  IF At(s, i) # "<" THEN 0
        ELSE IF p > 0 /\ DigitsAt(s, i + p, 18) /\ At(s, i + p + 18) = ">"
        THEN p + 19
        ELSE IF /\ At(s, q - 1) = ":"
                /\ n >= 2 /\ n <= 32
                /\ At(s, q + n) = ":"
                /\ DigitsAt(s, q + n + 1, 18)
                /\ At(s, q + n + 19) = ">"
        THEN q + n + 20 - i
        ELSE 0

\* rgx_d_elems.sub("", s), from position i on
RECURSIVE rgx_d_elems_sub(_, _)
rgx_d_elems_sub(s, i) ==
    IF i > Len(s) THEN <<>>
    ELSE IF rgx_d_elems_match(s, i) > 0
    THEN rgx_d_elems_sub(s, i + rgx_d_elems_match(s, i))
    ELSE <<s[i]>> \o rgx_d_elems_sub(s, i + 1)

\* the position of the first ">" after position i, 0 when there is none
RECURSIVE NextClose(_, _)
NextClose(s, i) ==
    IF i + 1 > Len(s) THEN 0
    ELSE IF s[i + 1] = ">" THEN i + 1 ELSE NextClose(s, i + 1)

\* rgx_dt_markers = "<[^>][^>]+>": rgx_dt_markers.findall(s), from position i on
RECURSIVE rgx_dt_markers_findall(_, _)
rgx_dt_markers_findall(s, i) ==
    IF i > Len(s) THEN <<>>
    ELSE LET j == NextClose(s, i)
         IN  IF s[i] = "<" /\ j # 0 /\ j - i >= 3
             THEN <<SubSeq(s, i, j)>> \o rgx_dt_markers_findall(s, j + 1)
             ELSE rgx_dt_markers_findall(s, i + 1)

\* time.startswith("http")
startswith_http(t) == Len(t) >= 4 /\ SubSeq(t, 1, 4) = <<"h", "t", "t", "p">>

\* conversion_handler, lines 229-238: the candidates of a message, in order
time_tokens(content) ==
    LET found == rgx_dt_markers_findall(rgx_d_elems_sub(content, 1), 1)
        stripped == [i \in 1..Len(found) |-> SubSeq(found[i], 2, Len(found[i]) - 1)]
    IN  SelectSeq(stripped, LAMBDA t : ~startswith_http(t))

-----------------------------------------------------------------------------
(* The resolver (timefhuman) and the conversion to unix time *)

\* A naive datetime is counted in half seconds since 1970-01-01T00:00:00.
\* 15:00:00.5 on 1970-01-01, and half a second before that day
NaiveTimes == {108001, -1}

\* what timefhuman does with one candidate: a naive datetime, [] (not
\* understood) or ValueError
Outcomes ==
    [kind : {"datetime"}, dt : NaiveTimes]
        \cup {[kind |-> "nothing", dt |-> 0], [kind |-> "ValueError", dt |-> 0]}

\* the timezones the tz database knows, with their offsets from UTC in seconds
KnownTimezones == {"UTC", "America/New_York"}
utcoffset(tz) == IF tz = "America/New_York" THEN -18000 ELSE 0

\* int(x / 2) of Python: towards zero
int_half(x) == IF x >= 0 THEN x \div 2 ELSE -((-x) \div 2)

\* lines 280-286: Arrow.fromdatetime(time, tz).to("UTC") as whole unix seconds
unix_time(time, tz) == int_half(time - 2 * utcoffset(tz))

\* parse_time_list with the understood times in the opposite order
parse_time_list_reversed(cands, res) ==
    LET parsed == [i \in 1..Len(cands) |-> res[Len(cands) + 1 - i]]
    IN  SelectSeq(parsed, LAMBDA t : t.kind # "nothing")

\* lines 240-246: time_list after the try block and the filter.  The list
\* comprehension is assigned only when no candidate raises; otherwise
\* time_list stays the list of candidate strings (kind "str").
parse_time_list(cands, res) ==
    LET parsed ==
            IF \E i \in 1..Len(cands) : res[i].kind = "ValueError"
            THEN [i \in 1..Len(cands) |-> [kind |-> "str", dt |-> 0]]
            ELSE [i \in 1..Len(cands) |-> res[i]]
    IN  SelectSeq(parsed, LAMBDA t : t.kind # "nothing")

\* sep.join(items), kept as the sequence of the pieces joined
RECURSIVE join(_, _)
join(sep, items) ==
    IF Len(items) = 0 THEN <<>>
    ELSE IF Len(items) = 1 THEN <<items[1]>>
    ELSE <<items[1], sep>> \o join(sep, Tail(items))

\* lines 288-290: the text of the converted reply
reply_text(unix_time_list) ==
    <<"That's ", "<t:">>
        \o join(":F>, <t:", [i \in 1..Len(unix_time_list) |-> ToString(unix_time_list[i])])
        \o <<":F>", " auto-converted to local time.">>

-----------------------------------------------------------------------------
(* What the bot sends: one record per call of the chat platform *)

\* by: the handler that makes the call
Sent(by, kind, to, text) == [by |-> by, kind |-> kind, to |-> to, text |-> text]

\* (the grave accents of the source text are written as apostrophes)
PromptWithChannel ==
    <<"You haven't registered with me yet or registration has failed\n",
      "Register by typing '?time' in the <#", reg_channel_id, "> channel">>

PromptAnyChannel ==
    <<"You haven't registered with me yet or registration has failed\n",
      "Register by typing '?time.'">>

DeregisterConfirmation == <<"You have successfully unregistered">>

RegistrationAck == <<"Check your direct messages for a registration link">>

RegistrationLink(link_id) ==
    <<"Visit this link to register your timezone: \n\n<", AppUrl, ToString(link_id), ">\n\n">>

-----------------------------------------------------------------------------
(* The handlers of a message.  Each gives the registry it leaves and what  *)
(* it sends; "error" names an exception that ends the handler.             *)

Done(reg, out) == [registry |-> reg, out |-> out, error |-> None]

Raised(reg, what) == [registry |-> reg, out |-> <<>>, error |-> what]

\* lines 294-299: the command is honoured
registration_honoured(m) ==
    /\ m.content = TimeCmd
    /\ (m.channel = reg_channel_id \/ reg_channel_id = None)

\* issue_link with User(int(user_id), "UTC") at line 309
issue_link_with_tz(reg, user_id, link_id) ==
    IF user_id \in DOMAIN reg
    THEN [reg EXCEPT ![user_id].update_id = link_id]
    ELSE [u \in DOMAIN reg \cup {user_id} |->
            IF u = user_id
            THEN [tz |-> "UTC", update_id |-> link_id, update_dt |-> default_dt]
            ELSE reg[u]]

\* issue_link with a new User(int(user_id), "") at line 309 whether or not
\* session.get found one
issue_link_reset(reg, user_id, link_id) ==
    [u \in DOMAIN reg \cup {user_id} |->
        IF u = user_id
        THEN [tz |-> "", update_id |-> link_id, update_dt |-> default_dt]
        ELSE reg[u]]

\* lines 305-311: the transaction of registration_handler
issue_link(reg, user_id, link_id) ==
    IF user_id \in DOMAIN reg
    THEN [reg EXCEPT ![user_id].update_id = link_id]
    ELSE [u \in DOMAIN reg \cup {user_id} |->
            IF u = user_id
            THEN [tz |-> "", update_id |-> link_id, update_dt |-> default_dt]
            ELSE reg[u]]

\* lines 293-322
registration_handler(reg, m, link_id) ==
    IF ~registration_honoured(m) THEN Done(reg, <<>>)
    ELSE Done(issue_link(reg, m.author, link_id),
              <<Sent("registration_handler", "dm", m.author, RegistrationLink(link_id)),
                Sent("registration_handler", "reply", m.author, RegistrationAck)>>)

\* the guard of deregister_handler without its test on the channel
deregister_honoured_anywhere(m) == m.content = DeregCmd

\* lines 325-328: the command is honoured
deregister_honoured(m) ==
    /\ m.content = DeregCmd
    /\ m.channel = reg_channel_id

\* the delete without its where clause
delete_all(reg, user_id) == [u \in {} |-> reg[u]]

\* lines 331-334: delete(User).where(User.id == message.author.id)
delete_user(reg, user_id) == [u \in DOMAIN reg \ {user_id} |-> reg[u]]

\* lines 324-336
deregister_handler(reg, m) ==
    IF ~deregister_honoured(m) THEN Done(reg, <<>>)
    ELSE Done(delete_user(reg, m.author),
              <<Sent("deregister_handler", "reply", m.author, DeregisterConfirmation)>>)

\* line 261 without its second test
unregistered_if_absent(reg, user_id) == user_id \notin DOMAIN reg

\* line 261: user is None or user[0].tz == ""
unregistered(reg, user_id) == user_id \notin DOMAIN reg \/ reg[user_id].tz = ""

\* convert_and_reply without the early return of lines 249-250
convert_and_reply_always(reg, m, time_list) ==
    IF unregistered(reg, m.author)
    THEN Done(reg, <<Sent("conversion_handler", "reply", m.author,
                          IF reg_channel_id # None THEN PromptWithChannel
                                                   ELSE PromptAnyChannel)>>)
    ELSE Done(reg, <<Sent("conversion_handler", "reply", m.author,
                          reply_text([i \in 1..Len(time_list) |->
                              unix_time(time_list[i].dt, reg[m.author].tz)]))>>)

\* lines 248-291: what conversion_handler does with time_list
convert_and_reply(reg, m, time_list) ==
    IF Len(time_list) = 0 THEN Done(reg, <<>>)
    ELSE IF unregistered(reg, m.author)
    THEN Done(reg, <<Sent("conversion_handler", "reply", m.author,
                          IF reg_channel_id # None THEN PromptWithChannel
                                                   ELSE PromptAnyChannel)>>)
    ELSE IF \E i \in 1..Len(time_list) : time_list[i].kind = "str"
    THEN Raised(reg, "AttributeError")
    ELSE IF reg[m.author].tz \notin KnownTimezones
    THEN Raised(reg, "ParserError")
    ELSE Done(reg, <<Sent("conversion_handler", "reply", m.author,
                          reply_text([i \in 1..Len(time_list) |->
                              unix_time(time_list[i].dt, reg[m.author].tz)]))>>)

\* lines 224-291; res[i] is what timefhuman does with the i-th candidate
conversion_handler(reg, m, res) ==
    convert_and_reply(reg, m, parse_time_list(time_tokens(m.content), res))

\* what two handlers of one message do together: b works on the registry a left
both(a, b) == [registry |-> b.registry, out |-> a.out \o b.out, error |-> b.error]

and_deregister(a, m) == both(a, deregister_handler(a.registry, m))

and_convert(a, m, res) == both(a, conversion_handler(a.registry, m, res))

\* on_message without the tests on the guild of lines 160-165
on_message_result_any_guild(reg, m, link_id, res) ==
    IF m.author # Bot
    THEN and_convert(and_deregister(registration_handler(reg, m, link_id), m), m, res)
    ELSE Done(reg, <<Sent("on_message", "add_reaction", Bot, <<MESSAGE_DELETE_REACTION>>)>>)

\* lines 155-184: on_message; the three handlers run only for a message of
\* the served guild that the bot did not write, and the bot's own message
\* there gets the delete reaction.  A message outside any guild (guild None)
\* raises AttributeError at line 160, which is caught.  At most one of the
\* three handlers acts on a message (their conditions on the content exclude
\* each other), so the order they are composed in is immaterial.
on_message_result(reg, m, link_id, res) ==
    IF m.guild = None THEN Done(reg, <<>>)
    ELSE IF m.guild = ServerId /\ m.author # Bot
    THEN and_convert(and_deregister(registration_handler(reg, m, link_id), m), m, res)
    ELSE IF m.guild = ServerId /\ m.author = Bot
    THEN Done(reg, <<Sent("on_message", "add_reaction", Bot, <<MESSAGE_DELETE_REACTION>>)>>)
    ELSE Done(reg, <<>>)

\* the rows the select finds without its where clause
rows_any(reg, link_id) == DOMAIN reg

\* lines 112-116: the rows select(User).where(User.update_id == int(link_id))
\* finds; fetchone() takes one of them
rows_by_link(reg, link_id) == {u \in DOMAIN reg : reg[u].update_id = link_id}

\* consume_link without the comparison of line 122
consume_link_unchecked(reg, u, tz, t) ==
    [registry |-> [reg EXCEPT ![u].tz = tz], resp |-> "Received", row |-> u]

\* lines 121-125, for the row fetched
consume_link(reg, u, tz, t) ==
    IF t - reg[u].update_dt > REGISTRATION_TIMEOUT
    THEN [registry |-> reg, resp |-> "Link timed out", row |-> u]
    ELSE [registry |-> [reg EXCEPT ![u].tz = tz], resp |-> "Received", row |-> u]

\* lines 104-125: the outcomes of POST / with {link_id, tz} at time t
receive_timezone_result(reg, link_id, tz, t) ==
    IF rows_by_link(reg, link_id) = {}
    THEN {[registry |-> reg, resp |-> None, row |-> None]}
    ELSE {consume_link(reg, u, tz, t) : u \in rows_by_link(reg, link_id)}

\* reaction_deletes without the test of lines 217-219
reaction_deletes_for_anyone(rx) ==
    /\ rx.guild = ServerId
    /\ rx.author = Bot
    /\ rx.user # Bot
    /\ rx.emoji = MESSAGE_DELETE_REACTION
    /\ rx.time_author # None

\* lines 186-222: whether on_reaction_add deletes the message reacted to.
\* rx.guild is None for a message outside any guild and rx.time_author is
\* None when the message has no reference or the message referred to cannot
\* be fetched: both end the handler with an exception.
reaction_deletes(rx) ==
    /\ rx.guild # None
    /\ rx.guild = ServerId
    /\ rx.author = Bot
    /\ rx.user # Bot
    /\ rx.emoji = MESSAGE_DELETE_REACTION
    /\ rx.time_author # None
    /\ rx.time_author = rx.user

-----------------------------------------------------------------------------
(* The events *)

NoMsg == [guild |-> None, author |-> None, channel |-> None, content |-> <<>>]

NoRx == [guild |-> None, author |-> None, emoji |-> None, user |-> None,
         time_author |-> None]

\* an event that carries nothing and sends nothing.  "changed" tells whether
\* the event changed the registry, "replay" whether the token of a POST / was
\* already answered "Received", "again" whether a ?time-deregister repeats
\* the event before it.
Blank(op) ==
    [op |-> op, msg |-> NoMsg, rx |-> NoRx, link_id |-> 0, tz |-> "", resp |-> None,
     row |-> None, replay |-> FALSE, res |-> <<>>, out |-> <<>>, error |-> None,
     changed |-> FALSE, again |-> FALSE]

\* lines 61-75: the tasks of dmux.start(...) and serve(app, config) run, and
\* asyncio.run waits in asyncio.wait; "first" is the task that ended first
Tasks == {"dmux", "serve"}

Started == [dmux |-> "running", serve |-> "running", main |-> "waiting", first |-> None]

NoHist == [at |-> 0, old |-> {}, credited |-> FALSE]

\* The state when the first event arrives: the table is empty, and the
\* module was imported (line 89 evaluated) some time before.
Init ==
    /\ registry = <<>>
    /\ default_dt = 0
    /\ now = 1
    /\ reg_channel_id \in {None, RegChannel}
    /\ ev = Blank("init")
    /\ hist = [u \in Users |-> NoHist]
    /\ spent = {}
    /\ proc = Started

\* on_message for message m; link_id is what random.randrange draws and
\* res what timefhuman does with each candidate
on_message(m, link_id, res) ==
    \E r \in {on_message_result(registry, m, link_id, res)} :
    LET routed == m.guild = ServerId /\ m.author # Bot
        issued == routed /\ registration_honoured(m)
        revoked == routed /\ deregister_honoured(m)
        h == hist[m.author]
        held == IF m.author \in DOMAIN registry
                THEN {registry[m.author].update_id} ELSE {}
    IN  /\ registry' = r.registry
        /\ ev' = [Blank("message") EXCEPT
                    !.msg = m, !.out = r.out, !.error = r.error, !.res = res,
                    !.changed = (r.registry # registry),
                    !.link_id = IF issued THEN link_id ELSE 0,
                    !.again = (revoked /\ ev.op = "message" /\ ev.msg = m)]
        /\ hist' =
              IF issued
              THEN [hist EXCEPT ![m.author] =
                      [at |-> now, old |-> (h.old \cup held) \ {link_id},
                       credited |-> h.credited /\ held # {}]]
              ELSE IF revoked
              THEN [hist EXCEPT ![m.author] =
                      [at |-> 0, old |-> h.old \cup held, credited |-> FALSE]]
              ELSE hist
        /\ spent' = IF issued THEN {} ELSE spent
        /\ UNCHANGED <<now, default_dt, reg_channel_id, proc>>

\* POST / with {link_id, tz}
receive_timezone(link_id, tz) ==
    \E r \in receive_timezone_result(registry, link_id, tz, now) :
        /\ registry' = r.registry
        /\ ev' = [Blank("post") EXCEPT
                    !.link_id = link_id, !.tz = tz, !.resp = r.resp, !.row = r.row,
                    !.changed = (r.registry # registry),
                    !.replay = (link_id \in spent)]
        /\ spent' = IF r.resp = "Received" THEN spent \cup {link_id} ELSE spent
        /\ hist' = [u \in Users |->
                      IF /\ r.resp = "Received"
                         /\ r.row = u
                         /\ link_id \in hist[u].old \cup {registry[u].update_id}
                      THEN [hist[u] EXCEPT !.credited = TRUE]
                      ELSE hist[u]]
        /\ UNCHANGED <<now, default_dt, reg_channel_id, proc>>

\* a reaction-add event
on_reaction_add(rx) ==
    /\ ev' = [Blank("reaction") EXCEPT
                !.rx = rx,
                !.out = IF reaction_deletes(rx)
                        THEN <<Sent("on_reaction_add", "delete", Bot, <<>>)>> ELSE <<>>,
                !.error = IF rx.guild = None
                             \/ (/\ rx.guild = ServerId /\ rx.author = Bot /\ rx.user # Bot
                                 /\ rx.emoji = MESSAGE_DELETE_REACTION
                                 /\ rx.time_author = None)
                          THEN "AttributeError" ELSE None]
    /\ UNCHANGED <<registry, now, default_dt, reg_channel_id, hist, spent, proc>>

\* the extractor alone, applied to the text of ev: lines 229-238
extract_tokens ==
    /\ ev.op = "text"
    /\ ev' = [ev EXCEPT !.op = "extract", !.out = time_tokens(ev.msg.content)]
    /\ UNCHANGED <<registry, now, default_dt, reg_channel_id, hist, spent, proc>>

\* a top-level task ends, by returning or by an exception
task_exits(t) ==
    /\ proc[t] = "running"
    /\ proc' = [proc EXCEPT ![t] = "done",
                             !.first = IF proc.first = None THEN t ELSE proc.first]
    /\ ev' = Blank("exit")
    /\ UNCHANGED <<registry, now, default_dt, reg_channel_id, hist, spent>>

\* return_when=ALL_COMPLETED in the place of FIRST_COMPLETED
wait_done_all(p) == p.dmux = "done" /\ p.serve = "done"

\* line 73, return_when=FIRST_COMPLETED: asyncio.wait is over
wait_done(p) == p.dmux = "done" \/ p.serve = "done"

\* lines 61-75: asyncio.wait returns, the coroutine given to asyncio.run is
\* over, and asyncio.run cancels every task that is left
wait_returns ==
    /\ proc.main = "waiting"
    /\ wait_done(proc)
    /\ proc' = [t \in DOMAIN proc |->
                  IF t = "main" THEN "closing"
                  ELSE IF proc[t] = "running" THEN "cancelled"
                  ELSE proc[t]]
    /\ ev' = Blank("wait")
    /\ UNCHANGED <<registry, now, default_dt, reg_channel_id, hist, spent>>

\* a cancelled task is run once more with CancelledError, and ends
cancelled_task_ends(t) ==
    /\ proc[t] = "cancelled"
    /\ proc' = [proc EXCEPT ![t] = "done"]
    /\ ev' = Blank("cancelled")
    /\ UNCHANGED <<registry, now, default_dt, reg_channel_id, hist, spent>>

\* asyncio.run closes the loop and returns once the cancelled tasks are over;
\* main() returns and the process ends (lines 76-78, 365)
process_exits ==
    /\ proc.main = "closing"
    /\ \A t \in Tasks : proc[t] = "done"
    /\ proc' = [proc EXCEPT !.main = "exited"]
    /\ ev' = Blank("exited")
    /\ UNCHANGED <<registry, now, default_dt, reg_channel_id, hist, spent>>

\* time passes
Tick ==
    \E t \in Times :
        /\ t > now
        /\ now' = t
        /\ ev' = Blank("tick")
        /\ UNCHANGED <<registry, default_dt, reg_channel_id, hist, spent, proc>>

-----------------------------------------------------------------------------
(* The inputs *)

Digits18 == [i \in 1..18 |-> "1"]
Mention == <<"<", "@", "!">> \o Digits18 \o <<">">>
Emoji == <<"<", ":", "o", "k", ":">> \o Digits18 \o <<">">>
Link == <<"<", "h", "t", "t", "p", ":", "/", "/", "x", ">">>
T3pm == <<"<", "3", "p", "m", ">">>
T5pm == <<"<", "5", "p", "m", ">">>
Plain == <<"h", "i">>

\* n time tokens in a row: <3pm> <5pm> <3pm> ...
RECURSIVE TimeTokens(_)
TimeTokens(n) ==
    IF n = 0 THEN <<>>
    ELSE TimeTokens(n - 1) \o <<" ">> \o (IF n % 2 = 1 THEN T3pm ELSE T5pm)

\* messages that are no command
Texts ==
    {Plain, Mention, Emoji \o Plain, Link, <<"<", "a", ">">>,
     T3pm, TimeTokens(MaxCandidates), Mention \o T3pm, Link \o T5pm}

\* the commands, posted by the users in the served guild
CommandMessages ==
    [guild : {ServerId}, author : Users, channel : Channels, content : {TimeCmd, DeregCmd}]

\* the commands, posted in the registration channel
HandshakeMessages == {m \in CommandMessages : m.channel = RegChannel}

\* the commands and the messages of Texts, posted by the users in the served guild
ChatMessages ==
    CommandMessages
        \cup [guild : {ServerId}, author : Users, channel : {"general"}, content : Texts]

\* what the bot itself posts, anywhere
BotMessages ==
    [guild : Guilds \cup {None}, author : {Bot}, channel : Channels, content : {Plain, T3pm}]

\* commands and a time posted by anyone (the bot included), in the served
\* guild, in another guild and outside any guild
RouteMessages ==
    [guild : Guilds \cup {None}, author : Users \cup {Bot}, channel : Channels,
     content : {TimeCmd, DeregCmd, TimeCmd \o <<" ">>, T3pm}]

\* the texts of at most MaxText characters that are made of brackets and a
\* letter, alone, after a mention and after the opening of a link
ShortTexts == UNION {[1..n -> {"<", ">", "a"}] : n \in 0..MaxText}

ExtractTexts ==
    {p \o t : p \in {<<>>, Mention, <<"<", "h", "t", "t", "p">>}, t \in ShortTexts}

\* one user's commands, for the runs that end with the process
RunMessages == {m \in HandshakeMessages : m.author = "u1"}

Reactions ==
    [guild : Guilds \cup {None}, author : Users \cup {Bot},
     emoji : {MESSAGE_DELETE_REACTION, "y"}, user : Users \cup {Bot},
     time_author : Users \cup {Bot, None}]

\* what timefhuman may do with the n candidates of a message: it is not
\* called past the first candidate it raises ValueError for (line 242), nor
\* past the last candidate ("nothing" there)
Resolutions(n) ==
    {res \in [1..MaxCandidates -> Outcomes] :
        \A i \in 1..MaxCandidates :
            (i > n \/ \E j \in 1..(i - 1) : res[j].kind = "ValueError")
                => res[i].kind = "nothing"}

-----------------------------------------------------------------------------
(* The registration handshake: commands, submissions and the clock *)

Next ==
    \/ \E m \in HandshakeMessages, k \in Tokens :
          on_message(m, k, CHOOSE r \in Resolutions(0) : TRUE)
    \/ \E k \in Tokens, tz \in {"", "UTC"} : receive_timezone(k, tz)
    \/ Tick

Spec == Init /\ [][Next]_vars

(* The conversion: the messages of Texts, with the commands and the        *)
(* submissions that register their author                                  *)

NextChat ==
    \/ \E m \in ChatMessages :
          \E res \in Resolutions(Len(time_tokens(m.content))) :
              on_message(m, CHOOSE k \in Tokens : TRUE, res)
    \/ \E tz \in Timezones : receive_timezone(CHOOSE k \in Tokens : TRUE, tz)

SpecChat == Init /\ [][NextChat]_vars

(* The reactions: the bot's own messages, and the reactions added to messages *)

NextReact ==
    \/ \E m \in BotMessages :
          on_message(m, CHOOSE k \in Tokens : TRUE, CHOOSE r \in Resolutions(0) : TRUE)
    \/ \E rx \in Reactions : on_reaction_add(rx)

SpecReact == Init /\ [][NextReact]_vars

(* The router: messages of every guild and author, and the submissions *)

NextRoute ==
    \/ \E m \in RouteMessages :
          \E res \in Resolutions(Len(time_tokens(m.content))) :
              on_message(m, CHOOSE k \in Tokens : TRUE, res)
    \/ \E tz \in {"UTC"} : receive_timezone(CHOOSE k \in Tokens : TRUE, tz)

SpecRoute == Init /\ [][NextRoute]_vars

(* The process: the chat task serves the messages and the web task the     *)
(* submissions while each runs; either may end at any time.  The event loop *)
(* runs every callback that is ready, whence the weak fairness of the steps *)
(* of asyncio.run and of the cancelled tasks.                               *)

NextRun ==
    \/ /\ proc.dmux = "running"
       /\ \E m \in RunMessages, k \in Tokens :
             on_message(m, k, CHOOSE r \in Resolutions(0) : TRUE)
    \/ /\ proc.serve = "running"
       /\ \E k \in Tokens : receive_timezone(k, "UTC")
    \/ \E t \in Tasks : task_exits(t)
    \/ wait_returns
    \/ \E t \in Tasks : cancelled_task_ends(t)
    \/ process_exits

SpecRun ==
    /\ Init
    /\ [][NextRun]_vars
    /\ WF_vars(wait_returns)
    /\ \A t \in Tasks : WF_vars(cancelled_task_ends(t))
    /\ WF_vars(process_exits)

(* The extractor as a function of the text *)

InitExtract ==
    /\ registry = <<>>
    /\ default_dt = 0
    /\ now = 1
    /\ reg_channel_id = None
    /\ \E t \in ExtractTexts :
          ev = [Blank("text") EXCEPT !.msg = [NoMsg EXCEPT !.content = t]]
    /\ hist = [u \in Users |-> NoHist]
    /\ spent = {}
    /\ proc = Started

NextExtract == extract_tokens

SpecExtract == InitExtract /\ [][NextExtract]_vars

-----------------------------------------------------------------------------
(* The properties.  They are stated on the event last handled (ev), on the  *)
(* registry and on the history, not with the operators of the handlers.     *)

\* the users whose record holds k as pending token
Holders(reg, k) == {u \in DOMAIN reg : reg[u].update_id = k}

\* what conversion_handler sent for the event e
ConversionOut(e) == SelectSeq(e.out, LAMBDA o : o.by = "conversion_handler")

\* the delete calls made for the event e
Deletes(e) == SelectSeq(e.out, LAMBDA o : o.kind = "delete")

\* C1: a token is answered "Received" at most once: a POST / is not answered
\* "Received" when its token was already answered "Received" since the last
\* ?time command.
C1_AtMostOnce ==
    (ev.op = "post" /\ ev.resp = "Received") => ~ev.replay

\* C2: the first POST / with the pending token of a user (held by no other
\* record), less than 30 minutes after the ?time command that issued it, is
\* answered "Received" and sets that user's timezone to the submitted one.
C2_LiveTokenSucceeds ==
    \A u \in Users :
        ( /\ ev.op = "post"
          /\ Holders(registry, ev.link_id) = {u}
          /\ now - hist[u].at < REGISTRATION_TIMEOUT
          /\ ~ev.replay )
        => (ev.resp = "Received" /\ registry[u].tz = ev.tz)

\* C3: a POST / whose token matches a record, 30 minutes or more after the
\* ?time command that issued the token (exactly 30 minutes included), is
\* answered "Link timed out" and leaves the registry as it was.
C3_ExpiredRejected ==
    [][ ( /\ ev'.op = "post"
          /\ Holders(registry, ev'.link_id) # {}
          /\ \A u \in Holders(registry, ev'.link_id) :
                now - hist[u].at >= REGISTRATION_TIMEOUT )
        => (ev'.resp = "Link timed out" /\ registry' = registry) ]_vars

\* the case of C3 at its boundary: a token exactly 30 minutes old is rejected
C3_Witness ==
    /\ ev.op = "post"
    /\ ev.resp = "Link timed out"
    /\ ev.row \in Users
    /\ now - hist[ev.row].at = REGISTRATION_TIMEOUT

\* C4: once a user has been issued a newer token, a POST / that carries one
\* of that user's older tokens is not answered "Received".
C4_OlderLinkFails ==
    \A u \in DOMAIN registry :
        (ev.op = "post" /\ ev.link_id \in hist[u].old) => ev.resp # "Received"

\* C5: a POST / whose link_id is the pending token of no record leaves the
\* registry unchanged and is not answered "Received".
C5_UnknownTokenNoEffect ==
    [][ (ev'.op = "post" /\ Holders(registry, ev'.link_id) = {})
        => (registry' = registry /\ ev'.resp # "Received") ]_vars

\* the case of C5: records exist, and none holds the token submitted
C5_Witness ==
    /\ ev.op = "post"
    /\ DOMAIN registry # {}
    /\ Holders(registry, ev.link_id) = {}
    /\ ev.resp = None

\* an honoured ?time-deregister
IsDeregister(e) ==
    /\ e.op = "message"
    /\ e.msg.guild = ServerId
    /\ e.msg.author \in Users
    /\ e.msg.content = DeregCmd
    /\ e.msg.channel = reg_channel_id

\* C6: an honoured ?time-deregister leaves no record for its author, leaves
\* the other users' records as they were and is answered with the
\* confirmation; a second one in a row gives the same answer and the same
\* registry as the first.
C6_DeregisterIdempotent ==
    [][ IsDeregister(ev')
        => /\ ev'.msg.author \notin DOMAIN registry'
           /\ DOMAIN registry' = DOMAIN registry \ {ev'.msg.author}
           /\ \A v \in DOMAIN registry' : registry'[v] = registry[v]
           /\ ev'.out = <<[by |-> "deregister_handler", kind |-> "reply",
                           to |-> ev'.msg.author, text |-> DeregisterConfirmation]>>
           /\ ev'.again => (registry' = registry /\ ev'.out = ev.out) ]_vars

\* the case of C6: the command a second time in a row, another user registered
C6_Witness ==
    /\ IsDeregister(ev)
    /\ ev.again
    /\ DOMAIN registry # {}

\* C7: a message is deleted only on a reaction-add event, and only when the
\* message is in the served guild and was written by the bot, the emoji is
\* the delete reaction, the reacting user is not the bot and is the author
\* of the message the reply answered.
C7_OnlyRequesterRetracts ==
    Len(Deletes(ev)) > 0
    => /\ ev.op = "reaction"
       /\ ev.rx.guild = ServerId
       /\ ev.rx.author = Bot
       /\ ev.rx.emoji = MESSAGE_DELETE_REACTION
       /\ ev.rx.user # Bot
       /\ ev.rx.time_author = ev.rx.user

\* the case of C7: the requester's reaction has deleted a reply
C7_Witness == ev.op = "reaction" /\ Len(Deletes(ev)) > 0

\* text t holds no angle-bracket-delimited substring
NoDelimited(t) ==
    ~\E i \in 1..Len(t) :
        /\ t[i] = "<"
        /\ \E j \in (i + 1)..Len(t) :
              /\ t[j] = ">"
              /\ \A k \in (i + 1)..(j - 1) : t[k] \notin {"<", ">"}

\* the resolver understood none of the candidates of the event e
NothingUnderstood(e) == \A i \in 1..Len(e.res) : e.res[i].kind = "nothing"

\* C8: for a message with no angle-bracket-delimited substring left once the
\* markup is removed, or whose candidates all resolve to nothing,
\* conversion_handler sends nothing and raises nothing, and the registry is
\* left as it was (unless the message is a command, which other handlers serve).
C8_ReplySuppression ==
    ( /\ ev.op = "message"
      /\ (NothingUnderstood(ev) \/ NoDelimited(rgx_d_elems_sub(ev.msg.content, 1))) )
    => /\ ConversionOut(ev) = <<>>
       /\ ev.error = None
       /\ ev.msg.content \notin {TimeCmd, DeregCmd} => ~ev.changed

\* the case of C8: a registered author, a candidate, nothing understood
C8_Witness ==
    /\ ev.op = "message"
    /\ ev.msg.content = T3pm
    /\ NothingUnderstood(ev)
    /\ ev.msg.author \in DOMAIN registry
    /\ registry[ev.msg.author].tz = "America/New_York"
    /\ ev.out = <<>>

\* the positions of the candidates the resolver understood, for the event ev
Understood == {i \in 1..Len(ev.res) : ev.res[i].kind = "datetime"}

\* the k-th of them, counted from the left of the message
KthUnderstood(k) ==
    CHOOSE p \in Understood : Cardinality({q \in Understood : q < p}) = k - 1

\* text is the converted reply for the understood candidates, in their order
InMessageOrder(text, tz) ==
    LET n == Cardinality(Understood)
    IN  /\ n >= 1
        /\ Len(text) = 2 * n + 3
        /\ text[2] = "<t:"
        /\ \A k \in 1..n :
              text[2 * k + 1] = ToString(unix_time(ev.res[KthUnderstood(k)].dt, tz))
        /\ \A k \in 1..(n - 1) : text[2 * k + 2] = ":F>, <t:"
        /\ text[2 * n + 2] = ":F>"

\* C9: for an author registered with a timezone of the tz database, a message
\* whose candidates the resolver resolved without failure, one at least
\* understood, is answered with one converted reply; and every converted
\* reply holds exactly one timestamp per candidate the resolver understood,
\* in the order of the candidates in the message.
C9_OrderPreserved ==
    /\ ( /\ ev.op = "message"
         /\ ev.msg.guild = ServerId
         /\ ev.msg.author \in DOMAIN registry
         /\ registry[ev.msg.author].tz \in KnownTimezones
         /\ Understood # {}
         /\ \A i \in 1..Len(ev.res) : ev.res[i].kind # "ValueError" )
       => /\ Len(ConversionOut(ev)) = 1
          /\ ConversionOut(ev)[1].text[1] = "That's "
    /\ \A i \in 1..Len(ConversionOut(ev)) :
          ConversionOut(ev)[i].text[1] = "That's "
          => InMessageOrder(ConversionOut(ev)[i].text, registry[ev.msg.author].tz)

\* the case of C9: a reply with two different timestamps
C9_Witness ==
    /\ Len(ConversionOut(ev)) = 1
    /\ ConversionOut(ev)[1].text[1] = "That's "
    /\ Len(ConversionOut(ev)[1].text) = 7
    /\ ConversionOut(ev)[1].text[3] # ConversionOut(ev)[1].text[5]

\* the registration prompt of this guild
RegistrationPrompt == IF reg_channel_id = None THEN PromptAnyChannel ELSE PromptWithChannel

\* C10: when a message yields a resolved time and its author has no record
\* or a record with an empty timezone, conversion_handler sends the
\* registration prompt and nothing else, and the registry is left as it was.
C10_UnregisteredPrompt ==
    ( /\ ev.op = "message"
      /\ \E i \in 1..Len(ev.res) : ev.res[i].kind = "datetime"
      /\ \/ ev.msg.author \notin DOMAIN registry
         \/ registry[ev.msg.author].tz = "" )
    => /\ ev.out = <<[by |-> "conversion_handler", kind |-> "reply",
                      to |-> ev.msg.author, text |-> RegistrationPrompt]>>
       /\ ~ev.changed

\* the case of C10: the author's record holds a pending link and no timezone
C10_Witness ==
    /\ ev.op = "message"
    /\ \E i \in 1..Len(ev.res) : ev.res[i].kind = "datetime"
    /\ ev.msg.author \in DOMAIN registry
    /\ registry[ev.msg.author].tz = ""
    /\ Len(ev.out) = 1
    /\ ev.out[1].text = RegistrationPrompt

\* C11: when the resolver raises ValueError for a candidate of a message and
\* resolved none of its candidates, conversion_handler raises nothing and
\* sends nothing, neither a converted reply nor the registration prompt.
C11_ResolverFailureSilent ==
    ( /\ ev.op = "message"
      /\ \E i \in 1..Len(ev.res) : ev.res[i].kind = "ValueError"
      /\ \A i \in 1..Len(ev.res) : ev.res[i].kind # "datetime" )
    => (ConversionOut(ev) = <<>> /\ ev.error = None)

\* what on_message sends for the bot's own message in the served guild
DeleteReaction ==
    <<[by |-> "on_message", kind |-> "add_reaction", to |-> Bot,
       text |-> <<MESSAGE_DELETE_REACTION>>]>>

\* C12: a message outside any guild, of another guild or written by the bot
\* changes no record, raises nothing and gets no reply or direct message;
\* the bot's own message in the served guild gets the delete reaction and
\* nothing else, every other such message nothing at all.
C12_RouterIsolation ==
    ( /\ ev.op = "message"
      /\ (ev.msg.guild # ServerId \/ ev.msg.author = Bot) )
    => /\ ~ev.changed
       /\ ev.error = None
       /\ ev.out = IF ev.msg.guild = ServerId THEN DeleteReaction ELSE <<>>

\* the case of C12: a registered user's honoured-looking ?time-deregister,
\* posted in another guild
C12_Witness ==
    /\ ev.op = "message"
    /\ ev.msg.guild = "other"
    /\ ev.msg.content = DeregCmd
    /\ ev.msg.channel = reg_channel_id
    /\ ev.msg.author \in DOMAIN registry
    /\ ev.out = <<>>

\* the message of the event e was given to the three handlers
Routed(e) == e.op = "message" /\ e.msg.guild = ServerId /\ e.msg.author # Bot

\* the event e is a ?time command that registration_handler accepted
Issued(e) == Routed(e) /\ e.link_id # 0

\* C14: after a ?time command accepted at time T, the author's record holds
\* the token generated for the command and an issue time (update_dt) equal
\* to T, whether the command created the record or found it.
C14_IssueTimeRecorded ==
    Issued(ev)
    => /\ ev.msg.author \in DOMAIN registry
       /\ registry[ev.msg.author].update_id = ev.link_id
       /\ registry[ev.msg.author].update_dt = now

\* a record's timezone differs between the two registries (a record that is
\* not there counts as one without timezone)
TzOf(reg, u) == IF u \in DOMAIN reg THEN reg[u].tz ELSE ""

\* C15: a record has a non-empty timezone only if, since the record was
\* created, a POST / with a token issued to its user was answered "Received"
\* for it; and only a POST / answered "Received" gives a record a timezone
\* it did not have.
C15_TimezoneProvenance ==
    [][ /\ \A u \in DOMAIN registry' :
              registry'[u].tz # "" => hist'[u].credited
        /\ (\E u \in Users : TzOf(registry', u) \notin {"", TzOf(registry, u)})
              => (ev'.op = "post" /\ ev'.resp = "Received") ]_vars

\* the case of C15: a record with a timezone, and after it a command that
\* gave its author a record without one
C15_Witness ==
    /\ Issued(ev)
    /\ registry[ev.msg.author].tz = ""
    /\ \E u \in DOMAIN registry : registry[u].tz = "UTC" /\ hist[u].credited

\* C16: a message changes the registry, or is answered by registration_handler
\* or deregister_handler, only if it is exactly ?time, in the registration
\* channel or with none configured, or exactly ?time-deregister in the
\* configured registration channel.
C16_ChannelGating ==
    ( /\ ev.op = "message"
      /\ \/ ev.changed
         \/ \E i \in 1..Len(ev.out) :
               ev.out[i].by \in {"registration_handler", "deregister_handler"} )
    => /\ Routed(ev)
       /\ \/ /\ ev.msg.content = TimeCmd
             /\ (reg_channel_id = None \/ ev.msg.channel = reg_channel_id)
          \/ /\ ev.msg.content = DeregCmd
             /\ reg_channel_id # None
             /\ ev.msg.channel = reg_channel_id

\* the case of C16: no registration channel is configured, and a registered
\* user's ?time-deregister deletes nothing and is not answered
C16_Witness ==
    /\ Routed(ev)
    /\ ev.msg.content = DeregCmd
    /\ reg_channel_id = None
    /\ ev.msg.author \in DOMAIN registry
    /\ registry[ev.msg.author].tz = "UTC"
    /\ ev.out = <<>>

\* C17: no two records hold the same pending token, and a POST / answered
\* "Received" writes the record of the user its token was last issued to.
C17_TokenOwnUser ==
    /\ \A u, v \in DOMAIN registry :
          u # v => registry[u].update_id # registry[v].update_id
    /\ (ev.op = "post" /\ ev.resp = "Received")
          => Holders(registry, ev.link_id) = {ev.row}

\* C18: while a user is deregistered (an honoured ?time-deregister, and no
\* ?time of the user since) the user has no record, and a POST / with a token
\* issued to the user before the deregistration writes no timezone.
C18_DeregisterRevokes ==
    \A u \in Users :
        hist[u].at = 0
        => /\ u \notin DOMAIN registry
           /\ (ev.op = "post" /\ ev.link_id \in hist[u].old) => ev.resp # "Received"

\* C19: an accepted ?time of a user who has a record changes the update_id of
\* that record and nothing else of the registry; one of a user without record
\* adds a record with an empty timezone and changes no other record.
C19_ReRegistrationKeepsTz ==
    [][ Issued(ev')
        => /\ DOMAIN registry' = DOMAIN registry \cup {ev'.msg.author}
           /\ \A v \in DOMAIN registry \ {ev'.msg.author} : registry'[v] = registry[v]
           /\ IF ev'.msg.author \in DOMAIN registry
              THEN registry'[ev'.msg.author] =
                       [registry[ev'.msg.author] EXCEPT !.update_id = ev'.link_id]
              ELSE registry'[ev'.msg.author].tz = "" ]_vars

\* the case of C19: the ?time of a user registered with a timezone
C19_Witness ==
    /\ Issued(ev)
    /\ registry[ev.msg.author].tz = "UTC"
    /\ hist[ev.msg.author].credited

\* position i of t opens a substring enclosed in "<" and ">" whose inner text
\* is not empty and holds neither "<" nor ">"
Closes(t, i, j) ==
    /\ t[i] = "<"
    /\ t[j] = ">"
    /\ \A k \in (i + 1)..(j - 1) : t[k] \notin {"<", ">"}

Opens(t, i) == \E j \in (i + 2)..Len(t) : Closes(t, i, j)

\* the inner texts of those substrings, from position i on, in their order
RECURSIVE Enclosed(_, _)
Enclosed(t, i) ==
    IF i > Len(t) THEN <<>>
    ELSE IF Opens(t, i)
    THEN <<SubSeq(t, i + 1, (CHOOSE j \in (i + 2)..Len(t) : Closes(t, i, j)) - 1)>>
            \o Enclosed(t, i + 1)
    ELSE Enclosed(t, i + 1)

BeginsWithHttp(c) ==
    Len(c) >= 4 /\ c[1] = "h" /\ c[2] = "t" /\ c[3] = "t" /\ c[4] = "p"

\* C20: the candidates of a text are exactly the inner texts of the
\* substrings enclosed in "<" and ">" (inner text not empty, without "<" and
\* ">") of the text without its markup, in order, less those that begin with
\* "http"; no candidate holds "<" or ">" or begins with "http".
C20_ExtractorShape ==
    ev.op = "extract"
    => /\ ev.out = SelectSeq(Enclosed(rgx_d_elems_sub(ev.msg.content, 1), 1),
                             LAMBDA c : ~BeginsWithHttp(c))
       /\ \A i \in 1..Len(ev.out) :
             /\ ~BeginsWithHttp(ev.out[i])
             /\ \A k \in 1..Len(ev.out[i]) : ev.out[i][k] \notin {"<", ">"}

\* C13: once one of the two top-level tasks has ended, the process
\* eventually ends with both tasks over: no run keeps exactly one of them
\* running for ever.
C13_SupervisoryTeardown ==
    (proc.dmux # "running" \/ proc.serve # "running")
        ~> (proc.main = "exited" /\ proc.dmux = "done" /\ proc.serve = "done")

\* the case of C13: the web task ended first, the chat task had issued a
\* link and was stopped, and the process is over
C13_Witness ==
    /\ proc.first = "serve"
    /\ proc.main = "exited"
    /\ proc.dmux = "done"
    /\ DOMAIN registry # {}

====
